---- MODULE Spec2Model ----
(***************************************************************************)
(* A model of bin/scr.py, the support library shared by the command        *)
(* scripts: the module bootstrap (_init_module), resolve_conf_path, the    *)
(* argument validators, the version codec and init_log.                    *)
(*                                                                         *)
(* Python strings are sequences of one-character strings, so slicing,      *)
(* strip(), lower(), split() and the posixpath functions are computed the  *)
(* way the library computes them.  The platform is POSIX (os.sep = "/",    *)
(* os.altsep = None).                                                      *)
(***************************************************************************)
EXTENDS Integers, Sequences, FiniteSets, TLC

\* ------------------------------------------------------------------------
\* Bounds of the model
\* ------------------------------------------------------------------------
MaxLen == 3
MaxVal == 10

\* ------------------------------------------------------------------------
\* Python str primitives
\* ------------------------------------------------------------------------
SetMin(S) == CHOOSE x \in S : \A y \in S : x <= y

SetMax(S) == CHOOSE x \in S : \A y \in S : y <= x

\* str.startswith
StartsWith(s, p) == Len(s) >= Len(p) /\ SubSeq(s, 1, Len(p)) = p

\* str.endswith
EndsWith(s, p) == Len(s) >= Len(p) /\ SubSeq(s, Len(s) - Len(p) + 1, Len(s)) = p

\* str.find(p, from): 1-based position of the first occurrence at or after
\* from, 0 when there is none
Find(s, p, from) ==
    LET C == {i \in from..(Len(s) - Len(p) + 1) : SubSeq(s, i, i + Len(p) - 1) = p}
    IN  IF C = {} THEN 0 ELSE SetMin(C)

\* str.rfind(p): 1-based position of the last occurrence, 0 when none
RFind(s, p) ==
    LET C == {i \in 1..(Len(s) - Len(p) + 1) : SubSeq(s, i, i + Len(p) - 1) = p}
    IN  IF C = {} THEN 0 ELSE SetMax(C)

\* s[i:] with a 1-based i
From(s, i) == SubSeq(s, i, Len(s))

Whitespace == {" ", "\t", "\n"}

\* str.strip()
Strip(s) ==
    LET K == {i \in 1..Len(s) : s[i] \notin Whitespace}
    IN  IF K = {} THEN <<>> ELSE SubSeq(s, SetMin(K), SetMax(K))

\* str.rstrip('/')
RStripSep(s) ==
    LET K == {i \in 1..Len(s) : s[i] # "/"}
    IN  IF K = {} THEN <<>> ELSE SubSeq(s, 1, SetMax(K))

UpperCase == <<"A","B","C","D","E","F","G","H","I","J","K","L","M",
               "N","O","P","Q","R","S","T","U","V","W","X","Y","Z">>

LowerCase == <<"a","b","c","d","e","f","g","h","i","j","k","l","m",
               "n","o","p","q","r","s","t","u","v","w","x","y","z">>

\* str.lower()
Lower(s) ==
    [i \in 1..Len(s) |->
        IF \E k \in 1..26 : UpperCase[k] = s[i]
        THEN LowerCase[CHOOSE k \in 1..26 : UpperCase[k] = s[i]]
        ELSE s[i]]

\* str.upper()
Upper(s) ==
    [i \in 1..Len(s) |->
        IF \E k \in 1..26 : LowerCase[k] = s[i]
        THEN UpperCase[CHOOSE k \in 1..26 : LowerCase[k] = s[i]]
        ELSE s[i]]

\* str.split(sep) for a one-character sep: always at least one segment
RECURSIVE SplitOn(_, _)
SplitOn(s, sep) ==
    LET i == Find(s, <<sep>>, 1)
    IN  IF i = 0 THEN <<s>>
        ELSE <<SubSeq(s, 1, i - 1)>> \o SplitOn(From(s, i + 1), sep)

\* sep.join(parts)
RECURSIVE JoinWith(_, _)
JoinWith(parts, sep) ==
    IF parts = <<>> THEN <<>>
    ELSE IF Len(parts) = 1 THEN parts[1]
    ELSE parts[1] \o <<sep>> \o JoinWith(Tail(parts), sep)

\* str.replace(a, b) for one-character a and b
ReplaceChar(s, a, b) == [i \in 1..Len(s) |-> IF s[i] = a THEN b ELSE s[i]]

\* str.split() with no argument: runs of whitespace separate, no empty words
RECURSIVE SplitWords(_)
SplitWords(s) ==
    LET t == Strip(s)
        W == {i \in 1..Len(t) : t[i] \in Whitespace}
    IN  IF t = <<>> THEN <<>>
        ELSE IF W = {} THEN <<t>>
        ELSE <<SubSeq(t, 1, SetMin(W) - 1)>> \o SplitWords(From(t, SetMin(W)))

\* ------------------------------------------------------------------------
\* Version codec
\* ------------------------------------------------------------------------
Digits == <<"0","1","2","3","4","5","6","7","8","9">>

IsDigit(c) == \E d \in 1..10 : Digits[d] = c

DigitVal(c) == (CHOOSE d \in 1..10 : Digits[d] = c) - 1

\* str.isdecimal(): non-empty and every character a decimal digit
IsDecimal(s) == s # <<>> /\ \A i \in 1..Len(s) : IsDigit(s[i])

\* int(s) of a decimal string
RECURSIVE IntOf(_)
IntOf(s) ==
    IF s = <<>> THEN 0
    ELSE 10 * IntOf(SubSeq(s, 1, Len(s) - 1)) + DigitVal(s[Len(s)])

\* str(i) of an integer
RECURSIVE StrOf(_)
StrOf(i) ==
    IF i < 0 THEN <<"-">> \o StrOf(0 - i)
    ELSE IF i < 10 THEN <<Digits[i + 1]>>
    ELSE StrOf(i \div 10) \o <<Digits[(i % 10) + 1]>>

\* a filter that also tests the value: "if s.isdecimal() and int(s)"
RECURSIVE DecimalSegmentsNonZero(_)
DecimalSegmentsNonZero(segs) ==
    IF segs = <<>> THEN <<>>
    ELSE (IF IsDecimal(Head(segs)) /\ IntOf(Head(segs)) # 0
          THEN <<IntOf(Head(segs))>> ELSE <<>>)
         \o DecimalSegmentsNonZero(Tail(segs))

\* the generator's filter: only decimal segments are converted
RECURSIVE DecimalSegments(_)
DecimalSegments(segs) ==
    IF segs = <<>> THEN <<>>
    ELSE (IF IsDecimal(Head(segs)) THEN <<IntOf(Head(segs))>> ELSE <<>>)
         \o DecimalSegments(Tail(segs))

semver_to_vsn(vstr) == DecimalSegments(SplitOn(vstr, "."))

vsn_to_semver(vsn) == JoinWith([i \in 1..Len(vsn) |-> StrOf(vsn[i])], ".")

\* ------------------------------------------------------------------------
\* posixpath
\* ------------------------------------------------------------------------
\* os.sep + os.altsep when there is an altsep, else os.sep: "/" on POSIX
_fspath_seps == {"/"}

\* os.path.isabs
IsAbs(p) == StartsWith(p, <<"/">>)

\* os.path.join(a, b)
PathJoin(a, b) ==
    IF IsAbs(b) THEN b
    ELSE IF a = <<>> \/ EndsWith(a, <<"/">>) THEN a \o b
    ELSE a \o <<"/">> \o b

\* the component loop of os.path.normpath: "" and "." are dropped, ".."
\* removes the component before it, is dropped at the root, and is kept
\* at the start of a relative path
RECURSIVE NormComps(_, _, _)
NormComps(comps, acc, rooted) ==
    IF comps = <<>> THEN acc
    ELSE LET c == Head(comps)
             dotdot == <<".", ".">>
         IN  IF c = <<>> \/ c = <<".">> THEN NormComps(Tail(comps), acc, rooted)
             ELSE IF c # dotdot
                     \/ (~rooted /\ acc = <<>>)
                     \/ (acc # <<>> /\ acc[Len(acc)] = dotdot)
                  THEN NormComps(Tail(comps), Append(acc, c), rooted)
             ELSE IF acc # <<>>
                  THEN NormComps(Tail(comps), SubSeq(acc, 1, Len(acc) - 1), rooted)
             ELSE NormComps(Tail(comps), acc, rooted)

\* os.path.normpath: exactly two leading slashes are kept, three or more
\* collapse to one
NormPath(path) ==
    IF path = <<>> THEN <<".">>
    ELSE LET dotted(out) == IF out = <<>> THEN <<".">> ELSE out
             rooted(slashes) ==
                 dotted([i \in 1..slashes |-> "/"]
                        \o JoinWith(NormComps(SplitOn(path, "/"), <<>>, slashes > 0), "/"))
         IN  rooted(IF ~StartsWith(path, <<"/">>) THEN 0
                    ELSE IF StartsWith(path, <<"/", "/">>)
                            /\ ~StartsWith(path, <<"/", "/", "/">>) THEN 2
                    ELSE 1)

\* os.path.abspath, in a process whose working directory is wd
AbsPath(path, wd) == NormPath(IF IsAbs(path) THEN path ELSE PathJoin(wd, path))

\* os.path.dirname
DirName(p) ==
    LET i == RFind(p, <<"/">>)
        head == SubSeq(p, 1, i)
    IN  IF head # <<>> /\ RStripSep(head) # <<>> THEN RStripSep(head) ELSE head

\* os.path.basename
BaseName(p) == From(p, RFind(p, <<"/">>) + 1)

\* $HOME of the invoking user
HomeDir == <<"/", "h">>

\* os.path.expanduser: "~" and "~/..." use $HOME; "~name" of an unknown
\* user is returned as it is
ExpandUser(path) ==
    IF ~StartsWith(path, <<"~">>) THEN path
    ELSE LET f == Find(path, <<"/">>, 2)
             i == IF f = 0 THEN Len(path) + 1 ELSE f
         IN  IF i # 2 THEN path
             ELSE LET out == RStripSep(HomeDir) \o From(path, i)
                  IN  IF out = <<>> THEN <<"/">> ELSE out

\* ------------------------------------------------------------------------
\* The filesystem the library queries.  fsys maps the real path of every
\* existing node to its kind and the permissions the process has on it;
\* /s is a symbolic link to the release root /r.
\* ------------------------------------------------------------------------
LinkName == <<"/", "s">>

LinkTarget == <<"/", "r">>

\* the real path an absolute, normalised path names
\* (the kernel reads a leading "//" as "/")
RealPath(p) ==
    LET q == IF StartsWith(p, <<"/", "/">>) THEN Tail(p) ELSE p
    IN  IF q = LinkName THEN LinkTarget
        ELSE IF StartsWith(q, LinkName \o <<"/">>)
             THEN LinkTarget \o From(q, Len(LinkName) + 1)
        ELSE q

\* the node os.stat(p) finds: the real path, or <<>> when there is none
StatKey(fsys, wd, p) ==
    IF p = <<>> THEN <<>>
    ELSE LET found(k) == IF k \in DOMAIN fsys THEN k ELSE <<>>
         IN  found(RealPath(AbsPath(p, wd)))

\* os.path.exists
Exists(fsys, wd, p) == StatKey(fsys, wd, p) # <<>>

\* os.path.isdir
IsDir(fsys, wd, p) ==
    LET is_dir(k) == k # <<>> /\ fsys[k].kind = "dir"
    IN  is_dir(StatKey(fsys, wd, p))

\* os.path.isfile
IsFile(fsys, wd, p) ==
    LET is_file(k) == k # <<>> /\ fsys[k].kind = "file"
    IN  is_file(StatKey(fsys, wd, p))

\* os.access(p, mode)
Access(fsys, wd, p, mode) ==
    LET allowed(k) == k # <<>> /\ mode \subseteq fsys[k].perm
    IN  allowed(StatKey(fsys, wd, p))

\* os.path.samefile of two existing paths: the same node
SameFile(fsys, wd, a, b) == StatKey(fsys, wd, a) = StatKey(fsys, wd, b)

\* os.mkdir(p): single-level creation; the parent must be a directory the
\* process may write to and traverse, and p must not exist.  perm is what
\* the process's umask leaves on the new directory (the owner's bits, under
\* the usual umask).
Mkdir(fsys, wd, p, perm) ==
    LET make(k, parent) ==
            IF k \notin DOMAIN fsys
               /\ parent \in DOMAIN fsys
               /\ fsys[parent].kind = "dir"
               /\ {"w", "x"} \subseteq fsys[parent].perm
            THEN [ok |-> TRUE, fs |-> (k :> [kind |-> "dir", perm |-> perm]) @@ fsys]
            ELSE [ok |-> FALSE, fs |-> fsys]
        make_at(k) == make(k, DirName(k))
    IN  make_at(RealPath(AbsPath(p, wd)))

\* open(p, 'at') as logging.FileHandler does it: creates the file when it is
\* missing, fails on a directory or on a file the process may not write
OpenAppend(fsys, wd, p) ==
    LET open(k, parent) ==
            IF k \in DOMAIN fsys
            THEN [ok |-> fsys[k].kind = "file" /\ "w" \in fsys[k].perm, fs |-> fsys]
            ELSE IF parent \in DOMAIN fsys
                    /\ fsys[parent].kind = "dir"
                    /\ {"w", "x"} \subseteq fsys[parent].perm
            THEN [ok |-> TRUE,
                  fs |-> (k :> [kind |-> "file", perm |-> {"r", "w"}]) @@ fsys]
            ELSE [ok |-> FALSE, fs |-> fsys]
        open_at(k) == open(k, DirName(k))
    IN  open_at(RealPath(AbsPath(p, wd)))

\* ------------------------------------------------------------------------
\* Results of a call: a returned value or the exception raised.  param marks
\* an exception raised through raise_param_error; text and arg are the two
\* parts of its f-string message.
\* ------------------------------------------------------------------------
None == <<>>

Ok(v) == [kind |-> "ok", val |-> v, text |-> "", arg |-> <<>>, param |-> FALSE]

Raise(kind, text, arg) ==
    [kind |-> kind, val |-> None, text |-> text, arg |-> arg, param |-> FALSE]

\* a raise_param_error whose debug branch also rewrites the message
raise_param_error_tagged(text, arg, bad_type, dbg) ==
    [kind |-> IF dbg
              THEN (IF bad_type THEN "ParamTypeError" ELSE "ParamValueError")
              ELSE (IF bad_type THEN "TypeError" ELSE "ValueError"),
     val |-> None, text |-> IF dbg THEN "debug" ELSE text, arg |-> arg,
     param |-> TRUE]

\* raise_param_error(msg, bad_type) in a process whose debug flag is dbg
raise_param_error(text, arg, bad_type, dbg) ==
    [kind |-> IF dbg
              THEN (IF bad_type THEN "ParamTypeError" ELSE "ParamValueError")
              ELSE (IF bad_type THEN "TypeError" ELSE "ValueError"),
     val |-> None, text |-> text, arg |-> arg, param |-> TRUE]

\* ------------------------------------------------------------------------
\* State of the process
\* ------------------------------------------------------------------------
VARIABLES
    BIN_DIR, CUR_DIR, ETC_DIR, LIB_DIR, LOG_DIR, REL_DIR, SCH_DIR, PROG_NAME,
    debug,          \* the module's debug flag
    loaded,         \* the module body has been executed
    sys_path,       \* sys.path
    fs,             \* the filesystem: real path -> [kind, perm]
    cwd,            \* os.getcwd()
    log_disable,    \* the logging manager's disable threshold
    log_handler,    \* the file of the root logger's handler, None when it has none
    log_level,      \* the root logger's level
    vsn,            \* a version held by the calling script
    call,           \* the last call made into the module and its arguments
    ret,            \* what that call returned or raised
    alt             \* what the same call gives with the debug flag reversed

dirs == <<BIN_DIR, CUR_DIR, ETC_DIR, LIB_DIR, LOG_DIR, REL_DIR, SCH_DIR, PROG_NAME>>

logging == <<log_disable, log_handler, log_level>>

vars == <<dirs, debug, loaded, sys_path, fs, cwd, logging, vsn, call, ret, alt>>

\* ------------------------------------------------------------------------
\* Names used by the module
\* ------------------------------------------------------------------------
tok_bin == <<"b","i","n">>

tok_etc == <<"e","t","c">>

tok_lib == <<"l","i","b">>

tok_log == <<"l","o","g">>

tok_prog == <<"p","r","o","g">>

tok_rel == <<"r","e","l">>

tok_schema == <<"s","c","h","e","m","a">>

\* the suffix of the log file's name
DOT_LOG == <<".", "l", "o", "g">>

\* the severities of the logging package
NOTSET == 0

DEBUG == 10

INFO == 20

WARNING == 30

ERROR == 40

CRITICAL == 50

NONE == -1

LOG_LEVELS ==
    (<<"A","L","L">> :> NOTSET)
    @@ (<<"D","E","B","U","G">> :> DEBUG)
    @@ (<<"I","N","F","O">> :> INFO)
    @@ (<<"W","A","R","N","I","N","G">> :> WARNING)
    @@ (<<"E","R","R","O","R">> :> ERROR)
    @@ (<<"C","R","I","T","I","C","A","L">> :> CRITICAL)
    @@ (<<"N","O","N","E">> :> NONE)

\* Python's a ^ b on non-negative integers: bitwise exclusive or
RECURSIVE BitXor(_, _)
BitXor(a, b) ==
    IF a = 0 /\ b = 0 THEN 0
    ELSE (((a % 2) + (b % 2)) % 2) + 2 * BitXor(a \div 2, b \div 2)

\* the argument of logging.disable in init_log: (2^31)-1
DisableThreshold == BitXor(2, 31) - 1

\* Logger.isEnabledFor(sev) for the root logger
IsEnabledFor(disable, rootlevel, sev) == ~(disable >= sev) /\ sev >= rootlevel

\* ------------------------------------------------------------------------
\* resolve_conf_path
\* ------------------------------------------------------------------------
\* the map resolve_conf_path builds on each use, with logdir the current
\* value of LOG_DIR
stache_map(logdir) ==
    (tok_bin :> BIN_DIR) @@ (tok_etc :> ETC_DIR) @@ (tok_lib :> LIB_DIR)
    @@ (tok_log :> logdir) @@ (tok_prog :> PROG_NAME) @@ (tok_rel :> REL_DIR)
    @@ (tok_schema :> SCH_DIR)

\* repl and tail put together
stache_join(repl, tail) ==
    IF tail[1] \in _fspath_seps THEN repl \o tail ELSE PathJoin(repl, tail)

\* a '{{...}}' branch that looks the name up with a default:
\* stache_map.get(substr, CUR_DIR)
stache_resolve_default(path, logdir) ==
    LET resolved(subend, substr, tail) ==
            IF subend = 0 THEN Raise("ValueError", "substring not found", None)
            ELSE IF tail = <<>>
                 THEN Raise("IndexError", "string index out of range", None)
            ELSE Ok(AbsPath(stache_join(IF substr \in DOMAIN stache_map(logdir)
                                        THEN stache_map(logdir)[substr] ELSE CUR_DIR,
                                        tail), cwd))
        closed_at(subend) ==
            resolved(subend, Lower(Strip(SubSeq(path, 3, subend - 1))),
                     From(path, subend + 2))
    IN  closed_at(Find(path, <<"}", "}">>, 1))

\* the '{{...}}' branch
stache_resolve(path, logdir) ==
    LET resolved(subend, substr, tail) ==
            IF subend = 0 THEN Raise("ValueError", "substring not found", None)
            ELSE IF substr \notin DOMAIN stache_map(logdir)
                 THEN Raise("KeyError", "", substr)
            ELSE IF tail = <<>>
                 THEN Raise("IndexError", "string index out of range", None)
            ELSE Ok(AbsPath(stache_join(stache_map(logdir)[substr], tail), cwd))
        closed_at(subend) ==
            resolved(subend, Lower(Strip(SubSeq(path, 3, subend - 1))),
                     From(path, subend + 2))
    IN  closed_at(Find(path, <<"}", "}">>, 1))

resolve_conf_path_in(path, logdir) ==
    IF StartsWith(path, <<"~">>) THEN Ok(AbsPath(ExpandUser(path), cwd))
    ELSE IF StartsWith(path, <<"{", "{">>) THEN stache_resolve(path, logdir)
    ELSE Ok(AbsPath(path, cwd))

resolve_conf_path(path) == resolve_conf_path_in(path, LOG_DIR)

\* ------------------------------------------------------------------------
\* Argument validators, in a process whose debug flag is dbg
\* ------------------------------------------------------------------------
PossibleFile(path, dbg) ==
    LET possible(fp, dp) ==
            IF Exists(fs, cwd, fp)
            THEN IF ~IsFile(fs, cwd, fp)
                 THEN raise_param_error("exists but not a file", fp, FALSE, dbg)
                 ELSE IF ~(Access(fs, cwd, fp, {"r"}) \/ Access(fs, cwd, fp, {"w"}))
                 THEN raise_param_error("insufficient file permissions", fp, FALSE, dbg)
                 ELSE Ok(fp)
            ELSE IF ~IsDir(fs, cwd, dp)
                 THEN raise_param_error("not a directory", dp, FALSE, dbg)
                 ELSE IF ~Access(fs, cwd, dp, {"w"})
                 THEN raise_param_error("insufficient directory permissions", dp, FALSE,
                                        dbg)
                 ELSE Ok(fp)
        possible_at(fp) == possible(fp, DirName(fp))
    IN  possible_at(AbsPath(ExpandUser(path), cwd))

ReadableAbsDir(path, dbg) ==
    IF ~IsDir(fs, cwd, path)
    THEN raise_param_error("not a directory", path, FALSE, dbg)
    ELSE IF ~Access(fs, cwd, path, {"w"})
    THEN raise_param_error("insufficient directory permissions", path, FALSE, dbg)
    ELSE Ok(path)

ReadableAbsFile(path, dbg) ==
    IF ~(IsFile(fs, cwd, path) /\ Access(fs, cwd, path, {"r"}))
    THEN raise_param_error("not a readable file", path, FALSE, dbg)
    ELSE Ok(path)

ReadableDir(path, dbg) == ReadableAbsDir(AbsPath(ExpandUser(path), cwd), dbg)

ReadableFile(path, dbg) == ReadableAbsFile(AbsPath(ExpandUser(path), cwd), dbg)

\* the one file with content in the modelled filesystem, and its text
NamesFile == <<"/","r","/","e","t","c","/","n">>

NamesText == <<"a", ",", "b", " ", "\n", "c", "\n">>

\* read_file(path)
read_file(path) ==
    IF IsFile(fs, cwd, path) /\ Access(fs, cwd, path, {"r"})
    THEN Ok(IF StatKey(fs, cwd, path) = NamesFile THEN NamesText ELSE <<>>)
    ELSE Raise("OSError", "open", path)

NamesListOrFile(param, dbg) ==
    IF StartsWith(param, <<"@">>)
    THEN LET names(r) == IF r.kind # "ok" THEN r
                         ELSE Ok(SplitWords(ReplaceChar(r.val, ",", " ")))
             names_in(f) == IF f.kind # "ok" THEN f ELSE names(read_file(f.val))
         IN  names_in(ReadableFile(Tail(param), dbg))
    ELSE Ok(SplitWords(ReplaceChar(param, ",", " ")))

\* ------------------------------------------------------------------------
\* init_log.  The call works on a record of the process state it may change:
\* LOG_DIR, the filesystem and the logging package's configuration, with the
\* result in ret and the function's local logdir in logdir.
\* ------------------------------------------------------------------------
LogState ==
    [ret |-> Ok(None), LOG_DIR |-> LOG_DIR, fs |-> fs,
     disable |-> log_disable, handler |-> log_handler, level |-> log_level,
     logdir |-> None]

\* logging.basicConfig(filename, filemode='at', ..., level): does nothing
\* when the root logger has a handler already; else opens the file and sets
\* the root level
basicConfig(st, logfile, loglevel) ==
    LET opened(o) ==
            IF ~o.ok THEN [st EXCEPT !.ret = Raise("OSError", "open", logfile)]
            ELSE [st EXCEPT !.fs = o.fs, !.handler = logfile, !.level = loglevel]
    IN  IF st.handler # None THEN st
        ELSE opened(OpenAppend(st.fs, cwd, logfile))

\* lines 253-256 with the global assigned before the path is resolved:
\* "LOG_DIR = logdir; logdir = resolve_conf_path(logdir)"
init_log_dir_unresolved(st, logdir) ==
    LET override(r) ==
            IF r.kind = "ok"
            THEN [st EXCEPT !.LOG_DIR = logdir, !.logdir = r.val, !.ret = r]
            ELSE [st EXCEPT !.LOG_DIR = logdir, !.ret = r]
    IN  IF logdir # None THEN override(resolve_conf_path_in(logdir, st.LOG_DIR))
        ELSE [st EXCEPT !.logdir = st.LOG_DIR, !.ret = Ok(st.LOG_DIR)]

\* lines 253-256 with an else branch that goes back to the release's log
\* directory: "LOG_DIR = logdir = os.path.join(REL_DIR, 'log')"
init_log_dir_reset(st, logdir) ==
    LET override(r) ==
            IF r.kind = "ok"
            THEN [st EXCEPT !.LOG_DIR = r.val, !.logdir = r.val, !.ret = r]
            ELSE [st EXCEPT !.ret = r]
    IN  IF logdir # None THEN override(resolve_conf_path_in(logdir, st.LOG_DIR))
        ELSE [st EXCEPT !.LOG_DIR = PathJoin(REL_DIR, tok_log),
                        !.logdir = PathJoin(REL_DIR, tok_log),
                        !.ret = Ok(PathJoin(REL_DIR, tok_log))]

\* lines 253-256: the directory to log to; an override is resolved and
\* becomes LOG_DIR.  ret holds the directory, or what resolve_conf_path raised
init_log_dir(st, logdir) ==
    LET override(r) ==
            IF r.kind = "ok"
            THEN [st EXCEPT !.LOG_DIR = r.val, !.logdir = r.val, !.ret = r]
            ELSE [st EXCEPT !.ret = r]
    IN  IF logdir # None THEN override(resolve_conf_path_in(logdir, st.LOG_DIR))
        ELSE [st EXCEPT !.logdir = st.LOG_DIR, !.ret = Ok(st.LOG_DIR)]

\* lines 257-270: create the directory if need be, check it, configure
init_log_check(st, logdir, logname, loglevel, dbg) ==
    LET name == IF logname = None THEN PROG_NAME ELSE logname
        checked(present, mk) ==
            IF ~present /\ Exists(st.fs, cwd, logdir)
            THEN [st EXCEPT !.ret = raise_param_error("not a directory", logdir, FALSE,
                                                      dbg)]
            ELSE IF ~mk.ok
            THEN [st EXCEPT !.ret = Raise("OSError", "mkdir", logdir)]
            ELSE IF ~Access(mk.fs, cwd, logdir, {"r", "w", "x"})
            THEN [st EXCEPT !.fs = mk.fs,
                            !.ret = raise_param_error("insufficient directory permissions",
                                                      logdir, FALSE, dbg)]
            ELSE basicConfig([st EXCEPT !.fs = mk.fs, !.ret = Ok(None)],
                             PathJoin(logdir, name \o DOT_LOG), loglevel)
        made(present) ==
            checked(present, IF present THEN [ok |-> TRUE, fs |-> st.fs]
                             ELSE Mkdir(st.fs, cwd, logdir, {"r", "w", "x"}))
    IN  made(IsDir(st.fs, cwd, logdir))

\* lines 253-270 with LOG_DIR assigned only once the directory has passed
\* the checks
init_log_enabled_late(st, loglevel, logdir, logname, dbg) ==
    LET commit(d, c) == IF c.ret.kind = "ok" THEN [c EXCEPT !.LOG_DIR = d.LOG_DIR] ELSE c
        log_to(d) ==
            IF d.ret.kind # "ok" THEN d
            ELSE commit(d, init_log_check([d EXCEPT !.LOG_DIR = st.LOG_DIR], d.ret.val,
                                          logname, loglevel, dbg))
    IN  log_to(init_log_dir(st, logdir))

\* lines 253-270: the part of init_log after the level is known to be real
init_log_enabled(st, loglevel, logdir, logname, dbg) ==
    LET log_to(d) ==
            IF d.ret.kind # "ok" THEN d
            ELSE init_log_check(d, d.ret.val, logname, loglevel, dbg)
    IN  log_to(init_log_dir(st, logdir))

\* lines 249-252: the sentinel level disables logging and returns
init_log_disable(st) == [st EXCEPT !.disable = DisableThreshold]

init_log(level, logdir, logname, dbg) ==
    LET at_level(key) ==
            IF key \notin DOMAIN LOG_LEVELS
            THEN [LogState EXCEPT !.ret = Raise("KeyError", "", key)]
            ELSE IF LOG_LEVELS[key] < 0 THEN init_log_disable(LogState)
            ELSE init_log_enabled(LogState, LOG_LEVELS[key], logdir, logname, dbg)
    IN  at_level(Upper(level))

\* ------------------------------------------------------------------------
\* _init_module
\* ------------------------------------------------------------------------
\* line 309: the lib directory exists and can be read and traversed
lib_usable(libdir) == IsDir(fs, cwd, libdir) /\ Access(fs, cwd, libdir, {"r", "x"})

\* lines 312-316 with the entries compared as strings: "_d == _libdir"
lib_in_path_by_name(sp, libdir) == \E i \in 1..Len(sp) : sp[i] = libdir

\* lines 312-316: some entry of the search path is the lib directory
lib_in_path(sp, libdir) ==
    \E i \in 1..Len(sp) : Exists(fs, cwd, sp[i]) /\ SameFile(fs, cwd, sp[i], libdir)

\* lines 318-324 with the lib directory put before the first entry:
\* "_sp.insert(0, _libdir)"
lib_insert_first(sp, libdir, bindir) ==
    IF Exists(fs, cwd, sp[1]) /\ SameFile(fs, cwd, sp[1], bindir)
    THEN <<libdir>> \o sp
    ELSE Append(sp, libdir)

\* lines 318-324: where the lib directory goes
lib_insert(sp, libdir, bindir) ==
    IF Exists(fs, cwd, sp[1]) /\ SameFile(fs, cwd, sp[1], bindir)
    THEN <<sp[1], libdir>> \o Tail(sp)
    ELSE Append(sp, libdir)

\* the search path after _init_module
new_sys_path(sp, libdir, bindir) ==
    IF lib_usable(libdir) /\ ~lib_in_path(sp, libdir)
    THEN lib_insert(sp, libdir, bindir)
    ELSE sp

\* the values _init_module computes from sys.argv[0]
init_values(argv0) ==
    LET values(script, bindir, reldir) ==
            [script |-> script, bindir |-> bindir, reldir |-> reldir,
             libdir |-> PathJoin(reldir, tok_lib)]
        in_bindir(script, bindir) == values(script, bindir, DirName(bindir))
        of_script(script) == in_bindir(script, DirName(script))
    IN  of_script(AbsPath(argv0, cwd))

\* ------------------------------------------------------------------------
\* The environment: the filesystem the process starts in, and the inputs of
\* the calls
\* ------------------------------------------------------------------------
\* paths of the modelled filesystem
P_R == <<"/", "r">>

P_RBIN == <<"/", "r", "/", "b", "i", "n">>

P_RBINSCR == <<"/", "r", "/", "b", "i", "n", "/", "s", "c", "r">>

P_RETC == <<"/", "r", "/", "e", "t", "c">>

P_RLIB == <<"/", "r", "/", "l", "i", "b">>

P_RLOG == <<"/", "r", "/", "l", "o", "g">>

P_H == <<"/", "h">>

P_HF == <<"/", "h", "/", "f">>

P_HRO == <<"/", "h", "/", "r", "o">>

P_HSCR == <<"/", "h", "/", "s", "c", "r">>

P_HD == <<"/", "h", "/", "d">>

P_P == <<"/", "p">>

P_LIB == <<"/", "l", "i", "b">>

P_SBINSCR == <<"/", "s", "/", "b", "i", "n", "/", "s", "c", "r">>

P_SLIB == <<"/", "s", "/", "l", "i", "b">>

P_SBIN == <<"/", "s", "/", "b", "i", "n">>

DOTDOT_BINSCR == <<".", ".", "/", "b", "i", "n", "/", "s", "c", "r">>

DOTDOT_LIB == <<".", ".", "/", "l", "i", "b">>

LOG_SUB_FILE == <<"{", "{", "l", "o", "g", "}", "}", "/", "s", "u", "b", "/", "f", "i", "l", "e", ".", "l", "o", "g">>

SUB_FILE == <<"s", "u", "b", "/", "f", "i", "l", "e", ".", "l", "o", "g">>

LOG_X == <<"{", "{", "l", "o", "g", "}", "}", "x">>

P_GONE == <<"/", "g", "o", "n", "e">>

Dir(perm) == [kind |-> "dir", perm |-> perm]

File(perm) == [kind |-> "file", perm |-> perm]

RWX == {"r", "w", "x"}

\* what every filesystem of the model holds: the release /r with its bin
\* and etc, the user's home /h with a file and a read-only directory, the
\* interpreter's library /p and a system /lib
FsBase ==
    (<<"/">> :> Dir({"r", "x"}))
    @@ (P_R :> Dir(RWX))
    @@ (P_RBIN :> Dir(RWX))
    @@ (P_RBINSCR :> File({"r", "x"}))
    @@ (P_RETC :> Dir(RWX))
    @@ (NamesFile :> File({"r"}))
    @@ (P_H :> Dir(RWX))
    @@ (P_HF :> File({"r", "w"}))
    @@ (P_HRO :> Dir({"r", "x"}))
    @@ (P_HSCR :> File({"r", "x"}))
    @@ (P_P :> Dir({"r", "x"}))
    @@ (P_LIB :> Dir({"r", "x"}))

\* the release's lib directory: missing, usable, or closed to the process
\* (its log directory: missing, a directory, or a plain file)
LibKinds == {"missing", "usable", "closed"}

FsWith(lib, log) ==
    (IF lib = "usable" THEN (P_RLIB :> Dir(RWX))
     ELSE IF lib = "closed" THEN (P_RLIB :> Dir({}))
     ELSE <<>>)
    @@ (IF log = "dir" THEN (P_RLOG :> Dir(RWX))
        ELSE IF log = "file" THEN (P_RLOG :> File({"r", "w"}))
        ELSE <<>>)
    @@ FsBase

\* the text between the braces, as callers write it
StacheNames ==
    {<<"b", "i", "n">>,
     <<"e", "t", "c">>,
     <<"l", "i", "b">>,
     <<"l", "o", "g">>,
     <<"p", "r", "o", "g">>,
     <<"r", "e", "l">>,
     <<"s", "c", "h", "e", "m", "a">>,
     <<" ", "L", "O", "G", " ">>,
     <<"b", "o", "g", "u", "s">>}

\* what follows the closing braces
StacheTails ==
    {<<>>,
     <<"/", "s", "u", "b", "/", "f", "i", "l", "e", ".", "l", "o", "g">>,
     <<"x">>}

\* arguments of resolve_conf_path
ConfPaths ==
    {<<"{", "{">> \o n \o <<"}", "}">> \o t : n \in StacheNames, t \in StacheTails}
    \cup {<<"~", "/", "x">>,
          <<"x">>,
          <<"{", "{", "l", "o", "g">>,
          <<"/", "h", "/", ".", ".", "/", "h", "/", "d">>}

\* arguments of the validators
ValidatorPaths ==
    {<<"/", "h", "/", "f">>,
     <<"/", "h", "/", "r", "o">>,
     <<"/", "h", "/", "n", "e", "w">>,
     <<"/", "n", "o", "/", "x">>,
     <<"~", "/", "f">>}

\* arguments of NamesListOrFile
NamesParams ==
    {<<"a", ",", "b", " ", " ", "c">>,
     <<"@", "/", "r", "/", "e", "t", "c", "/", "n">>,
     <<"@", "/", "n", "o", "/", "x">>}

\* arguments of semver_to_vsn
Semvers ==
    {<<"1", ".", "0", "2", ".", "x", ".", "3">>,
     <<>>,
     <<"1", "0", ".", "0">>}

\* the level names callers pass to init_log
LevelNames ==
    {<<"I", "n", "f", "o">>,
     <<"n", "o", "n", "e">>,
     <<"b", "o", "g", "u", "s">>}

\* the logdir arguments callers pass to init_log (None: omitted)
LogDirArgs ==
    {None,
     <<"~", "/", "d">>,
     <<"/", "h", "/", "f">>,
     <<"/", "h", "/", "r", "o">>,
     <<"/", "n", "o", "/", "d">>,
     <<"{", "{", "l", "o", "g", "}", "}">>,
     <<"{", "{", "b", "o", "g", "u", "s", "}", "}", "/", "x">>}

\* the logname arguments callers pass to init_log (None: omitted)
LogNameArgs == {None, <<"a">>}

InitLogArgs ==
    {[level |-> l, logdir |-> d, logname |-> n] :
        l \in LevelNames, d \in LogDirArgs, n \in LogNameArgs}

Severities == {DEBUG, INFO, WARNING, ERROR, CRITICAL}

\* sys.argv[0] and the working directory of the processes modelled
LoadArgv0 == {P_SBINSCR, <<"s","c","r">>}

Cwds == {P_RBIN, P_H}

\* sys.path as the interpreter hands it to the module: the script's
\* directory first, then the interpreter's library; never empty
SysPaths == {<<P_RBIN, P_P>>}

\* ------------------------------------------------------------------------
\* Initial states: the interpreter has started and the module is not yet
\* imported
\* ------------------------------------------------------------------------
NoCall == [op |-> "none", args |-> <<>>, debug |-> FALSE, logdir |-> None]

InitWith(paths, kinds, wds, versions) ==
    /\ BIN_DIR = None /\ CUR_DIR = None /\ ETC_DIR = None /\ LIB_DIR = None
    /\ LOG_DIR = None /\ REL_DIR = None /\ SCH_DIR = None /\ PROG_NAME = None
    /\ debug = FALSE
    /\ loaded = FALSE
    /\ sys_path \in paths
    /\ fs \in {FsWith(k[1], k[2]) : k \in kinds}
    /\ cwd \in wds
    /\ log_disable = 0
    /\ log_handler = None
    /\ log_level = WARNING
    /\ vsn \in versions
    /\ call = NoCall
    /\ ret = Ok(None)
    /\ alt = [ret |-> Ok(None), LOG_DIR |-> None, fs |-> fs, disable |-> 0,
              handler |-> None, level |-> WARNING, logdir |-> None]

Init ==
    InitWith(SysPaths, {<<"usable", "missing">>, <<"missing", "file">>}, Cwds, {<<1, 0, 2>>})

\* ------------------------------------------------------------------------
\* Actions
\* ------------------------------------------------------------------------
\* the part of a call's record every action writes: what was called, with
\* which arguments, under which debug flag
Called(op, args, dir) ==
    call' = [op |-> op, args |-> args, debug |-> debug, logdir |-> dir]

\* the script is between two calls into the module
Idle == call.op = "none"

\* a call that changes nothing of the process: r is its result, ralt its
\* result with the debug flag reversed
PureCall(op, args, r, ralt) ==
    /\ loaded
    /\ Idle
    /\ Called(op, args, None)
    /\ ret' = r
    /\ alt' = [LogState EXCEPT !.ret = ralt]
    /\ UNCHANGED <<dirs, debug, loaded, sys_path, fs, cwd, logging, vsn>>

\* the module body: debug = False (line 62), then _init_module() (line 327)
RunInitModule(argv0) ==
    \E v \in {init_values(argv0)} :
        /\ BIN_DIR' = v.bindir
        /\ CUR_DIR' = cwd
        /\ ETC_DIR' = PathJoin(v.reldir, tok_etc)
        /\ LIB_DIR' = v.libdir
        /\ LOG_DIR' = PathJoin(v.reldir, tok_log)
        /\ REL_DIR' = v.reldir
        /\ SCH_DIR' = PathJoin(v.reldir, tok_schema)
        /\ PROG_NAME' = BaseName(v.script)
        /\ sys_path' = new_sys_path(sys_path, v.libdir, v.bindir)
        /\ debug' = FALSE
        /\ loaded' = TRUE
        /\ call' = [op |-> "_init_module", args |-> <<argv0>>, debug |-> FALSE,
                    logdir |-> None]
        /\ ret' = Ok(None)
        /\ alt' = [LogState EXCEPT !.LOG_DIR = LOG_DIR']
        /\ UNCHANGED <<fs, cwd, logging, vsn>>

\* the import of the module by a command script
Load == ~loaded /\ Idle /\ \E a \in LoadArgv0 : RunInitModule(a)

\* the command script sets the module's debug flag
SetDebug ==
    /\ loaded
    /\ Idle
    /\ debug' = ~debug
    /\ UNCHANGED <<dirs, loaded, sys_path, fs, cwd, logging, vsn, call, ret, alt>>

CallResolveConfPath ==
    \E p \in ConfPaths :
        PureCall("resolve_conf_path", <<p>>, resolve_conf_path(p), resolve_conf_path(p))

CallPossibleFile ==
    \E p \in ValidatorPaths :
        PureCall("PossibleFile", <<p>>, PossibleFile(p, debug), PossibleFile(p, ~debug))

CallReadableAbsDir ==
    \E p \in ValidatorPaths :
        PureCall("ReadableAbsDir", <<p>>, ReadableAbsDir(p, debug), ReadableAbsDir(p, ~debug))

CallReadableAbsFile ==
    \E p \in ValidatorPaths :
        PureCall("ReadableAbsFile", <<p>>, ReadableAbsFile(p, debug),
                 ReadableAbsFile(p, ~debug))

CallReadableDir ==
    \E p \in ValidatorPaths :
        PureCall("ReadableDir", <<p>>, ReadableDir(p, debug), ReadableDir(p, ~debug))

CallReadableFile ==
    \E p \in ValidatorPaths :
        PureCall("ReadableFile", <<p>>, ReadableFile(p, debug), ReadableFile(p, ~debug))

CallNamesListOrFile ==
    \E p \in NamesParams :
        PureCall("NamesListOrFile", <<p>>, NamesListOrFile(p, debug),
                 NamesListOrFile(p, ~debug))

\* the script formats the version it holds
CallVsnToSemver ==
    PureCall("vsn_to_semver", <<vsn>>, Ok(vsn_to_semver(vsn)), Ok(vsn_to_semver(vsn)))

\* the script parses a version string it was given
CallSemverToVsn ==
    \E s \in Semvers :
        PureCall("semver_to_vsn", <<s>>, Ok(semver_to_vsn(s)), Ok(semver_to_vsn(s)))

\* the script parses the string it has just formatted:
\* semver_to_vsn(vsn_to_semver(vsn))
CallRoundTrip ==
    /\ call.op = "vsn_to_semver"
    /\ call' = [op |-> "round_trip", args |-> <<ret.val>>, debug |-> debug,
                logdir |-> None]
    /\ ret' = Ok(semver_to_vsn(ret.val))
    /\ alt' = [LogState EXCEPT !.ret = ret']
    /\ UNCHANGED <<dirs, debug, loaded, sys_path, fs, cwd, logging, vsn>>

\* the call is over: the script goes on with its own work
Return ==
    /\ ~Idle
    /\ call' = NoCall
    /\ ret' = Ok(None)
    /\ alt' = [LogState EXCEPT !.ret = Ok(None)]
    /\ UNCHANGED <<dirs, debug, loaded, sys_path, fs, cwd, logging, vsn>>

CallInitLog ==
    /\ loaded
    /\ Idle
    /\ \E a \in InitLogArgs :
           \E r \in {init_log(a.level, a.logdir, a.logname, debug)} :
               /\ LOG_DIR' = r.LOG_DIR
               /\ fs' = r.fs
               /\ log_disable' = r.disable
               /\ log_handler' = r.handler
               /\ log_level' = r.level
               /\ Called("init_log", <<a.level, a.logdir, a.logname>>, r.logdir)
               /\ ret' = r.ret
               /\ alt' = init_log(a.level, a.logdir, a.logname, ~debug)
               /\ UNCHANGED <<BIN_DIR, CUR_DIR, ETC_DIR, LIB_DIR, REL_DIR, SCH_DIR,
                              PROG_NAME, debug, loaded, sys_path, cwd, vsn>>

\* the script logs a record of severity sev through the root logger
LogCall ==
    \E sev \in Severities :
        LET out == IF IsEnabledFor(log_disable, log_level, sev)
                   THEN <<"emitted">> ELSE <<"suppressed">>
        IN  PureCall("log", <<sev>>, Ok(out), Ok(out))

Next ==
    \/ Load
    \/ SetDebug
    \/ CallResolveConfPath
    \/ CallPossibleFile
    \/ CallReadableAbsDir
    \/ CallReadableAbsFile
    \/ CallReadableDir
    \/ CallReadableFile
    \/ CallNamesListOrFile
    \/ CallVsnToSemver
    \/ CallSemverToVsn
    \/ CallRoundTrip
    \/ CallInitLog
    \/ LogCall
    \/ Return

Spec == Init /\ [][Next]_vars

\* ------------------------------------------------------------------------
\* The module body executed again in the same process (importlib.reload),
\* with sys.argv[0] as the script has left it
\* ------------------------------------------------------------------------
BootArgv0 == {P_RBINSCR, P_SBINSCR, <<"s","c","r">>, DOTDOT_BINSCR}

\* search paths the interpreter may hand over: with the script's directory
\* first (by its real name or through the link), with '' first, with a
\* missing entry, with the lib directory already there under another name
BootSysPaths ==
    {<<P_RBIN, P_P>>,
     <<P_SBIN, P_P>>,
     <<None, P_P>>,
     <<P_P, P_GONE>>,
     <<P_RBIN, P_GONE, P_SLIB>>,
     <<P_RBIN, DOTDOT_LIB>>,
     <<P_P, P_RLIB, P_SLIB>>}

Reload == loaded /\ Idle /\ \E a \in BootArgv0 : RunInitModule(a)

InitBoot ==
    InitWith(BootSysPaths, LibKinds \X {"missing"}, Cwds, {<<1, 0, 2>>})

NextBoot == Load \/ Reload \/ Return

SpecBoot == InitBoot /\ [][NextBoot]_vars

\* ------------------------------------------------------------------------
\* The version codec on every version within the bounds
\* ------------------------------------------------------------------------
Vsns == UNION {[1..n -> 0..MaxVal] : n \in 0..MaxLen}

InitVsn == InitWith(SysPaths, {<<"usable", "missing">>}, {P_RBIN}, Vsns)

NextVsn == Load \/ CallVsnToSemver \/ CallRoundTrip \/ Return

SpecVsn == InitVsn /\ [][NextVsn]_vars

\* ------------------------------------------------------------------------
\* Properties
\* ------------------------------------------------------------------------
\* the number of search-path entries that exist and are the directory d
SameDirCount(sp, d) ==
    Cardinality({i \in 1..Len(sp) :
                    Exists(fs, cwd, sp[i]) /\ SameFile(fs, cwd, sp[i], d)})

\* the level name is in the level table and is not the NONE sentinel
RealLevelName(level) ==
    Upper(level) \in DOMAIN LOG_LEVELS /\ LOG_LEVELS[Upper(level)] >= 0

\* C1: a run of _init_module that finds the lib directory usable and already
\* named by an existing search-path entry (same file, whatever the strings)
\* leaves the search path as it is, and no run takes the number of entries
\* that are the lib directory above one (or above what it found)
C1_NoDuplicateLibEntry ==
    [][call'.op = "_init_module" =>
        LET lib == LIB_DIR'
            usable == IsDir(fs, cwd, lib) /\ Access(fs, cwd, lib, {"r", "x"})
            before == SameDirCount(sys_path, lib)
        IN  /\ (usable /\ before > 0) => sys_path' = sys_path
            /\ SameDirCount(sys_path', lib) <= (IF before > 1 THEN before ELSE 1)]_vars

\* C1 witness: _init_module has run with a usable lib directory that the
\* search path names only under a different string
C1_Witness ==
    /\ call.op = "_init_module"
    /\ IsDir(fs, cwd, LIB_DIR) /\ Access(fs, cwd, LIB_DIR, {"r", "x"})
    /\ \A i \in 1..Len(sys_path) : sys_path[i] # LIB_DIR
    /\ SameDirCount(sys_path, LIB_DIR) = 1

\* C2: init_log with level NONE creates nothing, leaves LOG_DIR alone and
\* installs a disable threshold at or above CRITICAL, so that no severity
\* is enabled afterwards
C2_NoneSuppressesEverySeverity ==
    [][(call'.op = "init_log" /\ Upper(call'.args[1]) = <<"N","O","N","E">>) =>
        /\ fs' = fs
        /\ LOG_DIR' = LOG_DIR
        /\ log_disable' >= CRITICAL
        /\ \A sev \in Severities : ~IsEnabledFor(log_disable', log_level', sev)]_vars

\* C3: semver_to_vsn(vsn_to_semver(v)) = v for every sequence v of
\* non-negative integers
C3_RoundTrip == call.op = "round_trip" => ret.val = vsn

\* C3 witness: the round trip of a version with a zero and a two-digit part
C3_Witness == call.op = "round_trip" /\ vsn = <<0, 10, 3>> /\ ret.val = <<0, 10, 3>>

\* C4: an unrecognized '{{...}}' name makes resolve_conf_path raise KeyError
\* and return nothing; an unrecognized level name makes init_log raise
\* KeyError with LOG_DIR, the filesystem and the logging configuration as
\* they were
C4_UnknownNameIsLookupError ==
    /\ [](LET path == call.args[1]
              subend == Find(path, <<"}", "}">>, 1)
              name == Lower(Strip(SubSeq(path, 3, subend - 1)))
          IN  (/\ call.op = "resolve_conf_path"
               /\ StartsWith(path, <<"{", "{">>)
               /\ subend # 0
               /\ name \notin {tok_bin, tok_etc, tok_lib, tok_log, tok_prog,
                               tok_rel, tok_schema})
              => (ret.kind = "KeyError" /\ ret.val = None))
    /\ [][(call'.op = "init_log" /\ Upper(call'.args[1]) \notin DOMAIN LOG_LEVELS)
          => /\ ret'.kind = "KeyError"
             /\ LOG_DIR' = LOG_DIR
             /\ fs' = fs
             /\ logging' = logging]_vars

\* C4 witness: resolve_conf_path has raised KeyError
C4_Witness == call.op = "resolve_conf_path" /\ ret.kind = "KeyError"

\* C5: for every recognized name and every tail, the empty one included,
\* resolve_conf_path returns the absolute path of the name's value and the
\* tail with one separator between them (a leading "//", which POSIX
\* normalisation keeps, is read as "/")
C5_EveryTailResolves ==
    LET path == call.args[1]
        subend == Find(path, <<"}", "}">>, 1)
        name == Lower(Strip(SubSeq(path, 3, subend - 1)))
        tail == From(path, subend + 2)
        lead == {i \in 1..Len(tail) : tail[i] # "/"}
        rest == IF lead = {} THEN <<>> ELSE From(tail, SetMin(lead))
        want == AbsPath(PathJoin(stache_map(LOG_DIR)[name], rest), cwd)
        got  == IF StartsWith(ret.val, <<"/", "/">>) THEN Tail(ret.val) ELSE ret.val
    IN  (/\ call.op = "resolve_conf_path"
         /\ StartsWith(path, <<"{", "{">>)
         /\ subend # 0
         /\ name \in DOMAIN stache_map(LOG_DIR))
        => (ret.kind = "ok" /\ got = want)

\* C6 as stated: once a call with an override has configured logging in a
\* directory other than the release's log directory, LOG_DIR is that
\* directory for the rest of the process
C6_OverrideForRestOfProcess ==
    (log_handler # None /\ DirName(log_handler) # PathJoin(REL_DIR, tok_log))
    => LOG_DIR = DirName(log_handler)

\* C6 as amended: a successful init_log with a real level and an override
\* leaves LOG_DIR at the resolved override; LOG_DIR then changes only in an
\* init_log call with a real level and an override (or when the module body
\* runs again); an init_log call without logdir uses LOG_DIR, and
\* '{{log}}/sub/file.log' resolves to LOG_DIR joined with sub/file.log
C6_OverrideUntilReplaced ==
    [][/\ (/\ call'.op = "init_log"
           /\ RealLevelName(call'.args[1])
           /\ call'.args[2] # None
           /\ ret'.kind = "ok")
          => LOG_DIR' = resolve_conf_path(call'.args[2]).val
       /\ (LOG_DIR' # LOG_DIR)
          => \/ call'.op = "_init_module"
             \/ /\ call'.op = "init_log"
                /\ RealLevelName(call'.args[1])
                /\ call'.args[2] # None
       /\ (/\ call'.op = "init_log"
           /\ RealLevelName(call'.args[1])
           /\ call'.args[2] = None)
          => call'.logdir = LOG_DIR
       /\ (call'.op = "resolve_conf_path" /\ call'.args[1] = LOG_SUB_FILE)
          => /\ ret'.kind = "ok"
             /\ ret'.val = PathJoin(LOG_DIR, SUB_FILE)]_vars

\* C6 witness: after an override to ~/d, a call without logdir has reused
\* /h/d and succeeded
C6_Witness ==
    /\ call.op = "init_log"
    /\ call.args[2] = None
    /\ ret.kind = "ok"
    /\ call.logdir = P_HD
    /\ LOG_DIR = P_HD

\* C7: in every step that is not the bootstrap, the base directories and
\* PROG_NAME stay as they are, and LOG_DIR changes only in an init_log call
\* that was given a logdir
C7_BaseDirectoriesFrame ==
    [][call'.op # "_init_module" =>
        /\ BIN_DIR' = BIN_DIR /\ CUR_DIR' = CUR_DIR /\ ETC_DIR' = ETC_DIR
        /\ LIB_DIR' = LIB_DIR /\ REL_DIR' = REL_DIR /\ SCH_DIR' = SCH_DIR
        /\ PROG_NAME' = PROG_NAME
        /\ (LOG_DIR' # LOG_DIR)
           => (call'.op = "init_log" /\ call'.args[2] # None)]_vars

\* C7 witness: a call without logdir made after LOG_DIR had been moved away
\* from the release's log directory
C7_Witness ==
    /\ call.op = "init_log"
    /\ call.args[2] = None
    /\ RealLevelName(call.args[1])
    /\ LOG_DIR # PathJoin(REL_DIR, tok_log)

\* C8: a validator or init_log call decides, returns, reports and acts the
\* same with the debug flag on and off; only the kind of a parameter error
\* differs
C8_DebugChangesOnlyKind ==
    call.op \in {"PossibleFile", "ReadableAbsDir", "ReadableAbsFile", "ReadableDir",
                 "ReadableFile", "NamesListOrFile", "init_log"}
    => /\ (ret.kind = "ok") = (alt.ret.kind = "ok")
       /\ ret.val = alt.ret.val
       /\ ret.text = alt.ret.text
       /\ ret.arg = alt.ret.arg
       /\ ret.param = alt.ret.param
       /\ ret.param =>
            /\ ret.kind = (IF call.debug THEN "ParamValueError" ELSE "ValueError")
            /\ alt.ret.kind = (IF call.debug THEN "ValueError" ELSE "ParamValueError")
       /\ ~ret.param => ret.kind = alt.ret.kind
       /\ alt.LOG_DIR = LOG_DIR
       /\ alt.fs = fs
       /\ alt.disable = log_disable
       /\ alt.handler = log_handler
       /\ alt.level = log_level

\* C8 witness: a validator has failed with the debug flag on
C8_Witness ==
    /\ call.op = "PossibleFile"
    /\ call.debug
    /\ ret.kind = "ParamValueError"
    /\ alt.ret.kind = "ValueError"

C10_OverrideCommittedBeforeChecks ==
    [][/\ (/\ call'.op = "init_log"
           /\ RealLevelName(call'.args[1])
           /\ call'.args[2] # None
           /\ resolve_conf_path(call'.args[2]).kind = "ok"
           /\ ret'.kind # "ok")
          => /\ LOG_DIR' = resolve_conf_path(call'.args[2]).val
             /\ ret'.arg \in {LOG_DIR', PathJoin(LOG_DIR', PROG_NAME \o DOT_LOG),
                              PathJoin(LOG_DIR', <<"a">> \o DOT_LOG)}
       /\ (/\ call'.op = "init_log"
           /\ RealLevelName(call'.args[1])
           /\ call'.args[2] = None
           /\ ret'.kind # "ok")
          => ret'.arg = LOG_DIR
       /\ (call'.op = "resolve_conf_path" /\ call'.args[1] = LOG_X)
          => ret'.val = PathJoin(LOG_DIR, <<"x">>)]_vars

\* C10 witness: after the override /h/f was rejected, a call without logdir
\* has failed on /h/f
C10_Witness ==
    /\ call.op = "init_log"
    /\ call.args[2] = None
    /\ ret.param
    /\ ret.arg = P_HF
    /\ LOG_DIR = P_HF

====
